---- MODULE Spec2Model ----
(***************************************************************************)
(* Viterbi decoding of a discrete HMM in negative-log-probability space,   *)
(* as implemented by viterbi.py: DynamicValue, memoize and viterbi with    *)
(* its nested functions dist and V.                                        *)
(*                                                                         *)
(* Probabilities are numerators over 4 (1 = 1/4, 2 = 1/2, 4 = 1, 0 = 0),   *)
(* so a product of two of them is a numerator over 16 and -ln of it is a   *)
(* whole multiple of ln 2; costs are counted in units of ln 2 and added as *)
(* real numbers (floating-point rounding is not modelled).                 *)
(* A call of viterbi is executed step by step with an explicit call stack: *)
(* one step per element of a list comprehension, one per return.           *)
(***************************************************************************)
EXTENDS Integers, Sequences, FiniteSets, TLC

VARIABLES states, observations, P, Q, prior, vals, stack, outcome, result,
          calls, evals, requests

vars == <<states, observations, P, Q, prior, vals, stack, outcome, result,
          calls, evals, requests>>

\* Longest observation sequence handed to viterbi.
MaxN == 3

\* Number of successive viterbi calls.
MaxCalls == 2

----------------------------------------------------------------------------
\* Values

\* State labels: 0 is a label Python treats as false (0, ''), 1 and 2 are
\* labels it treats as true ('a', 'b').
Labels == {0, 1, 2}

ObsSet == {0, 1}

\* Python's None, the default of dist's third parameter.
None == 0 - 1

\* Truth value of a Python object used as a condition.
Truthy(v) == v # None /\ v # 0

NoVal == [err |-> "none", arg |-> <<>>, val |-> 0]

Raise(e) == [err |-> e, arg |-> <<>>, val |-> 0]

\* DynamicValue.__init__
DynamicValue(a, v) == [err |-> "none", arg |-> a, val |-> v]

LtLoose(a, b) == a.val <= b.val

\* DynamicValue.__lt__
Lt(a, b) == a.val < b.val

\* DynamicValue.__add__
Add(a, b) == DynamicValue(a.arg \o b.arg, a.val + b.val)

RECURSIVE MinScan(_, _, _)
MinScan(list, i, best) ==
    IF i > Len(list) THEN best
    ELSE MinScan(list, i + 1, IF Lt(list[i], best) THEN list[i] ELSE best)

\* The builtin min over a list: the first element is kept until a later one
\* is less than it; an empty list raises ValueError.
Min(list) == IF Len(list) = 0 THEN Raise("ValueError")
             ELSE MinScan(list, 2, list[1])

\* -math.log(v), v a numerator over 16, in units of ln 2; log(0) raises
\* ValueError (math domain error).
NegLog(v) == IF v = 0 THEN Raise("ValueError")
             ELSE DynamicValue(<<>>, CHOOSE k \in 0..4 : v * (2 ^ k) = 16)

----------------------------------------------------------------------------
\* dist

\* val = -math.log(Q[a][observations[m]] * F), where F is P[x][a] or
\* prior[a]; the subscripts are evaluated left to right and the first
\* failing one raises.
Cost(m, a, hasF, F) ==
    IF a \notin DOMAIN Q THEN Raise("KeyError")
    ELSE IF m + 1 > Len(observations) THEN Raise("IndexError")
    ELSE IF observations[m + 1] \notin DOMAIN Q[a] THEN Raise("KeyError")
    ELSE IF ~hasF THEN Raise("KeyError")
    ELSE NegLog(Q[a][observations[m + 1]] * F)

\* dist(m, x, x_prime=None)
dist(m, x, x_prime) ==
    IF Truthy(x_prime)
    THEN LET hasF == x \in DOMAIN P /\ x_prime \in DOMAIN P[x]
             c == Cost(m, x_prime, hasF, IF hasF THEN P[x][x_prime] ELSE 0)
         IN  IF c.err # "none" THEN c ELSE DynamicValue(<<x_prime>>, c.val)
    ELSE LET hasF == x \in DOMAIN prior
             c == Cost(m, x, hasF, IF hasF THEN prior[x] ELSE 0)
         IN  IF c.err # "none" THEN c ELSE DynamicValue(<<x>>, c.val)

----------------------------------------------------------------------------
\* Arguments of a call

StateLists == {<<>>, <<0>>, <<1>>, <<0, 1>>, <<1, 0>>, <<1, 2>>, <<2, 1>>}

ObsSeqs == UNION {[1..k -> ObsSet] : k \in 0..MaxN}

\* Transition tables P[x][y]: every move equally likely; staying likelier
\* than moving and the reverse (the shape of example(), alpha below and
\* above one half); every state drawn away from state 1.
PUniform == [x \in Labels |-> [y \in Labels |-> 2]]

PSticky == [x \in Labels |-> [y \in Labels |-> IF x = y THEN 2 ELSE 1]]

PSwitch == [x \in Labels |-> [y \in Labels |-> IF x = y THEN 1 ELSE 2]]

PAway == [x \in Labels |-> [y \in Labels |-> IF y = 1 THEN 1 ELSE 4]]

PTables == {PUniform, PSticky, PSwitch, PAway}

\* Emission tables Q[x][y]: every symbol equally likely; a state emitting
\* its own symbol (its label modulo 2) likelier than the other and the
\* reverse (the shape of example(), epsilon below and above one half).
QUniform == [x \in Labels |-> [y \in ObsSet |-> 2]]

QOwn == [x \in Labels |-> [y \in ObsSet |-> IF y = x % 2 THEN 4 ELSE 1]]

QOther == [x \in Labels |-> [y \in ObsSet |-> IF y = x % 2 THEN 1 ELSE 2]]

QTables == {QUniform, QOwn, QOther}

\* Priors: uniform (as in example()), state 1 unlikely, state 1 likely.
PriorUniform == [x \in Labels |-> 2]

PriorLow == [x \in Labels |-> IF x = 1 THEN 1 ELSE 2]

PriorHigh == [x \in Labels |-> IF x = 1 THEN 4 ELSE 1]

PriorTables == {PriorUniform, PriorLow, PriorHigh}

\* A dict with the entry for key k removed.
Without(f, k) == [j \in DOMAIN f \ {k} |-> f[j]]

\* The ways the entry for key k of a dict is spoilt: set to probability
\* zero, or missing.
Spoil(row, k) == {[row EXCEPT ![k] = 0], Without(row, k)}

SpoiltP(p) == {[p EXCEPT ![1] = r] : r \in Spoil(p[1], 0) \cup Spoil(p[1], 1)}

SpoiltQ(q) == {[q EXCEPT ![1] = r] : r \in Spoil(q[1], 0)}

\* The three tables of a call, well-formed.
CleanTables ==
    {[P |-> p, Q |-> q, prior |-> pr] :
        p \in PTables, q \in QTables, pr \in PriorTables}

\* The tables of the calls that follow one another.
CallTables ==
    {[P |-> p, Q |-> q, prior |-> pr] :
        p \in {PUniform, PSticky, PAway}, q \in {QUniform, QOwn},
        pr \in {PriorUniform, PriorHigh}}

\* The three tables of a call: well-formed, or with one entry spoilt.
Tables ==
    LET T(p, q, pr) == [P |-> p, Q |-> q, prior |-> pr]
    IN  CleanTables
        \cup UNION {{T(sp, q, pr) : sp \in SpoiltP(p)} :
                        p \in PTables, q \in QTables, pr \in PriorTables}
        \cup UNION {{T(p, sq, pr) : sq \in SpoiltQ(q)} :
                        p \in PTables, q \in QTables, pr \in PriorTables}
        \cup UNION {{T(p, q, spr) : spr \in Spoil(pr, 1)} :
                        p \in PTables, q \in QTables, pr \in PriorTables}

----------------------------------------------------------------------------
\* A call of viterbi, step by step

\* A memo table with no entries, and the count of a key in a table of
\* counters.
Empty == [k \in {} |-> 0]

Count(f, k) == IF k \in DOMAIN f THEN f[k] ELSE 0

Bump(f, k) == [j \in DOMAIN f \cup {k} |-> IF j = k THEN Count(f, k) + 1 ELSE f[j]]

Put(f, k, v) == [j \in DOMAIN f \cup {k} |-> IF j = k THEN v ELSE f[j]]

KeptMemo == vals

\* memoize: vals = {}, executed by the decorator each time viterbi defines V.
NewMemo == Empty

AlwaysMiss(key) == FALSE

\* memoized: not (args not in vals)
MemoHit(key) == key \in DOMAIN vals

RecurseEarly(m) == m < Len(observations) - 3

\* V: m < len(observations) - 2
Recurse(m) == m < Len(observations) - 2

\* The activation of viterbi's return expression (fn = "viterbi") or of the
\* body of V(m, x) (fn = "V"): i is the position in states of the next
\* element of the list comprehension, acc the list built so far, pend the
\* value of dist(...) while the V(...) it is to be added to is running.
Frame(fn, m, x) == [fn |-> fn, m |-> m, x |-> x, i |-> 1, acc |-> <<>>,
                    pend |-> NoVal]

Top == stack[Len(stack)]

Running == outcome = "running" /\ Len(stack) > 0

\* The stack with v appended to the list of its topmost comprehension.
Deliver(stk, v) ==
    LET f == stk[Len(stk)]
    IN  [stk EXCEPT ![Len(stk)] =
            [f EXCEPT !.acc = Append(f.acc, v), !.i = f.i + 1, !.pend = NoVal]]

\* An exception unwinds the whole call.
Abort(e) ==
    /\ outcome' = e
    /\ stack' = <<>>
    /\ UNCHANGED <<states, observations, P, Q, prior, vals, result, calls,
                   evals, requests>>

\* d + V(key): the memoized V either answers from vals or runs V's body.
Request(d, key) ==
    /\ requests' = Bump(requests, key)
    /\ IF MemoHit(key)
       THEN /\ stack' = Deliver(stack, Add(d, vals[key]))
            /\ UNCHANGED evals
       ELSE /\ stack' = Append([stack EXCEPT ![Len(stack)].pend = d],
                               Frame("V", key[1], key[2]))
            /\ evals' = Bump(evals, key)
    /\ UNCHANGED <<states, observations, P, Q, prior, vals, outcome, result,
                   calls>>

\* viterbi(states, observations, P, Q, prior) is called again, after an
\* earlier call has returned or raised.
CallViterbi ==
    /\ outcome # "running"
    /\ calls < MaxCalls
    /\ \E s \in StateLists, o \in ObsSeqs, t \in CallTables :
          /\ states' = s
          /\ observations' = o
          /\ P' = t.P
          /\ Q' = t.Q
          /\ prior' = t.prior
    /\ vals' = NewMemo
    /\ stack' = <<Frame("viterbi", 0, None)>>
    /\ outcome' = "running"
    /\ result' = <<>>
    /\ calls' = calls + 1
    /\ evals' = Empty
    /\ requests' = Empty

\* One element of [dist(0,x) + V(0,x) for x in states].
TopElem ==
    /\ Running
    /\ Top.fn = "viterbi"
    /\ Top.i <= Len(states)
    /\ LET x == states[Top.i]
           d == dist(0, x, None)
       IN  IF d.err # "none" THEN Abort(d.err) ELSE Request(d, <<0, x>>)

\* return min([...]).arg
TopReturn ==
    /\ Running
    /\ Top.fn = "viterbi"
    /\ Top.i > Len(states)
    /\ LET r == Min(Top.acc)
       IN  IF r.err # "none" THEN Abort(r.err)
           ELSE /\ result' = r.arg
                /\ outcome' = "returned"
                /\ stack' = <<>>
                /\ UNCHANGED <<states, observations, P, Q, prior, vals, calls,
                               evals, requests>>

\* One element of the list comprehension in the body of V(m, x).
VElem ==
    /\ Running
    /\ Top.fn = "V"
    /\ Top.i <= Len(states)
    /\ LET x_prime == states[Top.i]
           d == dist(Top.m + 1, Top.x, x_prime)
       IN  IF d.err # "none" THEN Abort(d.err)
           ELSE IF Recurse(Top.m) THEN Request(d, <<Top.m + 1, x_prime>>)
           ELSE /\ stack' = Deliver(stack, d)
                /\ UNCHANGED <<states, observations, P, Q, prior, vals,
                               outcome, result, calls, evals, requests>>

\* The body of V(m, x) returns min([...]); memoized stores it in vals and
\* returns the stored value to the caller, which adds it to its dist(...).
VReturn ==
    /\ Running
    /\ Top.fn = "V"
    /\ Top.i > Len(states)
    /\ LET key == <<Top.m, Top.x>>
           r == Min(Top.acc)
           caller == SubSeq(stack, 1, Len(stack) - 1)
       IN  IF r.err # "none" THEN Abort(r.err)
           ELSE /\ vals' = Put(vals, key, r)
                /\ stack' = Deliver(caller, Add(caller[Len(caller)].pend, r))
                /\ UNCHANGED <<states, observations, P, Q, prior, outcome,
                               result, calls, evals, requests>>

\* The entry of one call of viterbi: the arguments are bound, memoize has
\* wrapped V, and the return expression is about to be evaluated.
Init ==
    /\ states \in StateLists
    /\ observations \in ObsSeqs
    /\ \E t \in Tables : P = t.P /\ Q = t.Q /\ prior = t.prior
    /\ vals = Empty
    /\ stack = <<Frame("viterbi", 0, None)>>
    /\ outcome = "running"
    /\ result = <<>>
    /\ calls = 1
    /\ evals = Empty
    /\ requests = Empty

Next == TopElem \/ TopReturn \/ VElem \/ VReturn

\* One call of viterbi, on any arguments.
Spec == Init /\ [][Next]_vars

\* Before the first call of viterbi.
InitCalls ==
    /\ states = <<>>
    /\ observations = <<>>
    /\ P = Empty
    /\ Q = Empty
    /\ prior = Empty
    /\ vals = Empty
    /\ stack = <<>>
    /\ outcome = "idle"
    /\ result = <<>>
    /\ calls = 0
    /\ evals = Empty
    /\ requests = Empty

NextCalls == CallViterbi \/ TopElem \/ TopReturn \/ VElem \/ VReturn

\* Successive calls of viterbi on well-formed tables.
SpecCalls == InitCalls /\ [][NextCalls]_vars

----------------------------------------------------------------------------
\* What the claims speak of

n == Len(observations)

StateSet == {states[i] : i \in 1..Len(states)}

Finished == outcome \notin {"idle", "running"}

Failed == outcome \in {"IndexError", "KeyError", "ValueError"}

\* Every entry the decode may look up is in its table.
Complete ==
    \A x \in StateSet :
        /\ x \in DOMAIN prior
        /\ x \in DOMAIN Q
        /\ \A i \in 1..n : observations[i] \in DOMAIN Q[x]
        /\ x \in DOMAIN P
        /\ \A y \in StateSet : y \in DOMAIN P[x]

\* Every such entry is a probability above zero.
Positive ==
    \A x \in StateSet :
        /\ prior[x] > 0
        /\ \A i \in 1..n : Q[x][observations[i]] > 0
        /\ \A y \in StateSet : P[x][y] > 0

ValidInput == Len(states) >= 1 /\ n >= 1 /\ Complete /\ Positive

AllTruthy == \A x \in StateSet : Truthy(x)

\* The complete paths x_0 .. x_{n-1}.
Paths == [1..n -> StateSet]

\* The two probabilities of step i of a path: prior(x_0) and Q(x_0, y_0) for
\* the first, P(x_{i-1}, x_i) and Q(x_i, y_i) for the others.
Factor(path, i) == IF i = 1 THEN prior[path[1]] ELSE P[path[i - 1]][path[i]]

Emit(path, i) == Q[path[i]][observations[i]]

Feasible(path) == \A i \in 1..Len(path) : Factor(path, i) * Emit(path, i) > 0

RECURSIVE CostFrom(_, _)
CostFrom(path, i) ==
    IF i > Len(path) THEN 0
    ELSE NegLog(Factor(path, i) * Emit(path, i)).val + CostFrom(path, i + 1)

\* Total cost of a feasible complete path, in units of ln 2.
PathCost(path) == CostFrom(path, 1)

\* v is the first of the candidates of least cost.
FirstMin(cands, v) ==
    \E i \in 1..Len(cands) :
        /\ v = cands[i]
        /\ \A j \in 1..Len(cands) :
              IF j < i THEN cands[j].val > v.val ELSE cands[j].val >= v.val

\* The list V(m, x) takes its minimum of, rebuilt from the memo table.
VCands(m, x) ==
    [i \in 1..Len(states) |->
        IF m < n - 2
        THEN Add(dist(m + 1, x, states[i]), vals[<<m + 1, states[i]>>])
        ELSE dist(m + 1, x, states[i])]

\* The list viterbi takes its minimum of, rebuilt from the memo table.
TopCands ==
    [i \in 1..Len(states) |->
        Add(dist(0, states[i], None), vals[<<0, states[i]>>])]

----------------------------------------------------------------------------
\* C1: on strictly positive tables the path viterbi returns is a complete
\* path, and no complete path costs less.
C1_Optimal ==
    (outcome = "returned" /\ ValidInput) =>
        /\ result \in Paths
        /\ \A path \in Paths : PathCost(result) <= PathCost(path)

\* C2: on valid arguments (states not empty, at least one observation,
\* complete and strictly positive tables) viterbi returns a path as long as
\* the observations.
C2_Length ==
    (Finished /\ ValidInput /\ AllTruthy) =>
        (outcome = "returned" /\ Len(result) = n)

\* C3: with one observation viterbi returns [x], x the first state of least
\* time-0 cost, and V's body is only ever run at time indices 0 .. n-2.
C3_Single ==
    (ValidInput /\ AllTruthy) =>
        /\ (Finished /\ n = 1) =>
              /\ outcome = "returned"
              /\ FirstMin([i \in 1..Len(states) |-> dist(0, states[i], None)],
                          DynamicValue(result, PathCost(result)))
        /\ \A k \in DOMAIN evals : k[1] >= 0 /\ k[1] <= n - 2

\* The case of C4: states [a, b] = [1, 2], every probability one half,
\* observations [0, 0].
AllHalves ==
    /\ states = <<1, 2>>
    /\ observations = <<0, 0>>
    /\ P = PUniform
    /\ Q = QUniform
    /\ prior = PriorUniform

\* C4: every minimum taken (by V for each memo entry, by viterbi for its
\* result) is the first candidate of least cost in the order of states; with
\* states [a, b], every probability one half and observations [0, 0] the
\* result is [a, a].
C4_TieBreak ==
    /\ \A k \in DOMAIN vals : FirstMin(VCands(k[1], k[2]), vals[k])
    /\ outcome = "returned" =>
          \E c \in {TopCands[i] : i \in 1..Len(states)} :
              FirstMin(TopCands, c) /\ result = c.arg
    /\ (AllHalves /\ Finished) => (outcome = "returned" /\ result = <<1, 1>>)

\* A returned call in which viterbi and V each chose between candidates of
\* equal cost.
C4_Witness ==
    /\ AllHalves
    /\ outcome = "returned"
    /\ result = <<1, 1>>
    /\ \A i \in 1..2 : TopCands[i].val = TopCands[1].val
    /\ \A i \in 1..2 : VCands(0, 1)[i].val = VCands(0, 1)[1].val

\* Some probability the decode looks up is zero.
HasZero ==
    \E x \in StateSet :
        \/ prior[x] = 0
        \/ \E i \in 1..n : Q[x][observations[i]] = 0
        \/ \E y \in StateSet : P[x][y] = 0

\* C5: when a probability is zero and some complete path has no zero
\* factor, viterbi still returns, and returns a path of least cost among the
\* paths without a zero factor.
C5_ZeroLoses ==
    (Finished /\ Len(states) >= 1 /\ n >= 2 /\ AllTruthy /\ Complete
        /\ HasZero /\ \E path \in Paths : Feasible(path)) =>
        /\ outcome = "returned"
        /\ result \in Paths
        /\ Feasible(result)
        /\ \A path \in Paths :
              Feasible(path) => PathCost(result) <= PathCost(path)

\* C6: viterbi fails, returning no path, whenever states is empty,
\* observations is empty or a table lacks an entry for a state of states (or
\* for such a state and an observation of observations); a call that ends
\* either fails or returns a path as long as the observations.
C6_InputFailure ==
    Finished =>
        /\ (Len(states) = 0 \/ n = 0 \/ ~Complete) =>
              (Failed /\ result = <<>>)
        /\ Failed \/ (outcome = "returned" /\ Len(result) = n)

\* The dist(...) of the list element the topmost activation works on.
StepDist ==
    IF Top.fn = "viterbi" THEN dist(0, states[Top.i], None)
    ELSE dist(Top.m + 1, Top.x, states[Top.i])

\* C7: within a call the body of V runs at most once for each key, an entry
\* of the memo table stays as it was stored, and a request for a stored key
\* runs nothing and yields the stored entry.
C7_WriteOnce ==
    [][calls' = calls =>
        /\ \A k \in DOMAIN evals' : evals'[k] <= 1
        /\ \A k \in DOMAIN vals : k \in DOMAIN vals' /\ vals'[k] = vals[k]
        /\ \A k \in DOMAIN vals :
              Count(requests', k) > Count(requests, k) =>
                  /\ evals' = evals
                  /\ Len(stack') = Len(stack)
                  /\ stack'[Len(stack)].acc =
                        Append(Top.acc, Add(StepDist, vals[k]))]_vars

\* An entry requested by two parents and computed once.
C7_Witness ==
    \E k \in DOMAIN vals : Count(requests, k) >= 2 /\ Count(evals, k) = 1

\* The first element of a list that holds an exception, as the list
\* comprehension raises it, or else the minimum of the list.
RaiseOrMin(list) ==
    IF \E i \in 1..Len(list) : list[i].err # "none"
    THEN list[CHOOSE i \in 1..Len(list) :
                 /\ list[i].err # "none"
                 /\ \A j \in 1..(i - 1) : list[j].err = "none"]
    ELSE Min(list)

\* d + v, d and v evaluated in this order, either of which may raise.
AddOrRaise(d, v) ==
    IF d.err # "none" THEN d ELSE IF v.err # "none" THEN v ELSE Add(d, v)

\* V(m, x) computed by its body alone, with no memo table.
RECURSIVE PlainV(_, _)
PlainV(m, x) ==
    RaiseOrMin([i \in 1..Len(states) |->
        LET d == dist(m + 1, x, states[i])
        IN  IF d.err # "none" \/ ~(m < n - 2) THEN d
            ELSE AddOrRaise(d, PlainV(m + 1, states[i]))])

\* What a call with the current arguments ends in when nothing precedes or
\* accompanies it: its outcome and the path returned.
Alone ==
    LET r == RaiseOrMin([i \in 1..Len(states) |->
                 LET d == dist(0, states[i], None)
                 IN  IF d.err # "none" THEN d
                     ELSE AddOrRaise(d, PlainV(0, states[i]))])
    IN  IF r.err # "none" THEN <<r.err, <<>>>> ELSE <<"returned", r.arg>>

\* C8: whatever calls came before, a call ends as a call with the same
\* arguments made alone does, and every memo entry it holds was computed by
\* this call itself.
C8_Isolation ==
    /\ Finished => <<outcome, result>> = Alone
    /\ \A k \in DOMAIN vals : Count(evals, k) >= 1

\* A later call that has returned a path after reading its memo table.
C8_Witness ==
    /\ calls >= 2
    /\ outcome = "returned"
    /\ Len(result) >= 2
    /\ \E k \in DOMAIN vals : Count(requests, k) >= 2

\* C9: an entry for (m, x) with m < n-2 is in the memo table only when the
\* entries for (m+1, x_prime) are there for every x_prime of states, and it
\* is one of those entries added to the step into its x_prime.
C9_Dependency ==
    \A k \in DOMAIN vals :
        k[1] < n - 2 =>
            /\ \A i \in 1..Len(states) : <<k[1] + 1, states[i]>> \in DOMAIN vals
            /\ \E i \in 1..Len(states) :
                  vals[k] = Add(dist(k[1] + 1, k[2], states[i]),
                                vals[<<k[1] + 1, states[i]>>])

\* An entry of a time index below n-2 is stored.
C9_Witness ==
    \E k \in DOMAIN vals : k[1] < n - 2 /\ Len(vals[k].arg) >= 2

\* The interior step from x into x_prime at time m+1.
Interior(m, x, x_prime) ==
    DynamicValue(<<x_prime>>,
        NegLog(Q[x_prime][observations[m + 2]] * P[x][x_prime]).val)

\* C10: whatever the labels, each dist(m+1, x, x_prime) that V evaluates has
\* path [x_prime] and cost -ln(Q[x_prime][observations[m+1]] * P[x][x_prime]):
\* the elements of the list of a V that does not recurse, and the pending
\* left operand of a V that does.
C10_InteriorStep ==
    ValidInput =>
        \A d \in 1..Len(stack) :
            LET f == stack[d]
            IN  f.fn = "V" =>
                    /\ ~(f.m < n - 2) =>
                          \A j \in 1..Len(f.acc) :
                              f.acc[j] = Interior(f.m, f.x, states[j])
                    /\ (f.m < n - 2 /\ d < Len(stack)) =>
                          f.pend = Interior(f.m, f.x, states[f.i])

====
